---- MODULE Spec2Model ----
(***************************************************************************)
(* box-dyn-dns: one run of main() resolves the host's public IPv4 address, *)
(* then Cloudflare::update_dns looks the A record up (GET) and replaces it *)
(* (PUT) when its content differs.  The resolver and the provider API are  *)
(* the environment: their answers are inputs of the actions.               *)
(***************************************************************************)
EXTENDS Integers, Sequences, FiniteSets, TLC

VARIABLES pc, config, response, address, calls, getReply, putReply, record,
          outcome, run, totalPuts, updatedRun, remote, publicIp

vars == <<pc, config, response, address, calls, getReply, putReply, record,
          outcome, run, totalPuts, updatedRun, remote, publicIp>>

\* Bounds of the model.
MaxAddrs == 2
MaxRecords == 2
MaxErrors == 1
MaxRuns == 2

SeqsUpTo(S, n) == UNION {[1..k -> S] : k \in 0..n}

(***************************************************************************)
(* Values                                                                  *)
(***************************************************************************)
Ipv4Addrs == {<<1, 2, 3, 4>>, <<1, 2, 3, 5>>}

\* std::net::IpAddr: V4(octets) or V6(..).
IpAddrs == {[v4 |-> TRUE, octets |-> o] : o \in Ipv4Addrs}
             \cup {[v4 |-> FALSE, octets |-> <<0, 0, 0, 1>>]}

NoAddr == <<0, 0, 0, 0>>

\* Ipv4Addr::to_string(): dotted decimal, no padding.
Ipv4ToString(ip) ==
    ToString(ip[1]) \o "." \o ToString(ip[2]) \o "." \o ToString(ip[3])
        \o "." \o ToString(ip[4])

\* What resolver.lookup_ip can give back: an error, or a sequence of addresses.
LookupResults ==
    {[ok |-> FALSE, ips |-> <<>>]}
        \cup {[ok |-> TRUE, ips |-> s] : s \in SeqsUpTo(IpAddrs, MaxAddrs)}

NoLookup == [ok |-> FALSE, ips |-> <<>>]

default_base_url == "https://api.cloudflare.com/client/v4"

\* Secrets { dns_name, update_dns: Cloudflare(CloudflareConfig) }
Secrets ==
    {[dns_name |-> "home.example.com", base_url |-> default_base_url,
      zone_id |-> z, api_token |-> "t0k3n"] : z \in {"Z"}}

NoConfig == [dns_name |-> "", base_url |-> "", zone_id |-> "", api_token |-> ""]

\* CloudflareListDnsRecordRes { id, name, content, ttl }.  The content is a
\* string the provider chose: it may spell an address in a non-canonical way.
Contents == {"1.2.3.4", "1.2.3.5", "1.2.3.04"}

CloudflareListDnsRecordRes ==
    {[id |-> "r1", name |-> "home.example.com", content |-> c, ttl |-> 300]
        : c \in Contents}
    \cup {[id |-> "r2", name |-> "HOME.example.com", content |-> c, ttl |-> 1]
        : c \in Contents}

NoRecord == [id |-> "", name |-> "", content |-> "", ttl |-> 0]

\* CloudflareError { code, message }
CloudflareError ==
    {[code |-> 1000, message |-> "bad request"],
     [code |-> 9109, message |-> "invalid access token"]}

\* The "result" member of a reply body: null or missing, a list of records,
\* or any other JSON value.
NullResult == [tag |-> "null", list |-> <<>>]
OtherResult == [tag |-> "other", list |-> <<>>]
ListResult(l) == [tag |-> "list", list |-> l]

\* A body that is not JSON of the envelope's shape at all.
Garbage == [json |-> FALSE, success |-> FALSE, result |-> NullResult, errors |-> <<>>]

\* CloudflareResponse<T> { result: Option<T>, success, errors } as sent.
Envelopes(results) ==
    {[json |-> TRUE, success |-> s, result |-> r, errors |-> e] :
        s \in BOOLEAN, r \in results, e \in SeqsUpTo(CloudflareError, MaxErrors)}

StatusCodes == {200, 500}

\* The request could not be sent (send() failed).
SendFailure == [sent |-> FALSE, status |-> 0, body |-> Garbage]

Responses(results) ==
    {SendFailure}
        \cup {[sent |-> TRUE, status |-> st, body |-> b] :
                st \in StatusCodes, b \in Envelopes(results) \cup {Garbage}}

GetResponses ==
    Responses({NullResult, OtherResult}
        \cup {ListResult(l) : l \in SeqsUpTo(CloudflareListDnsRecordRes, MaxRecords)})

\* The PUT reply is read as CloudflareResponse<serde_json::Value>: every
\* non-null result is alike to the code.
PutResponses == Responses({NullResult, OtherResult})

(***************************************************************************)
(* Errors: eyre reports with their context chain, and panics               *)
(***************************************************************************)
Report(text) ==
    [ctx |-> <<>>, text |-> text, status |-> 0, unreadable |-> FALSE,
     errs |-> <<>>, list |-> <<>>]

wrap_err(msg, report) == [report EXCEPT !.ctx = <<msg>> \o @]

Ok == [kind |-> "ok", report |-> Report(""), record |-> NoRecord]
Err(report) == [kind |-> "err", report |-> report, record |-> NoRecord]
Panic(report) == [kind |-> "panic", report |-> report, record |-> NoRecord]
Continue(r) == [kind |-> "continue", report |-> Report(""), record |-> r]
Running == [kind |-> "running", report |-> Report("")]

(***************************************************************************)
(* main: address selection                                                 *)
(***************************************************************************)
first_v4_last(ips) ==
    LET v4s == SelectSeq(ips, LAMBDA x : x.v4)
    IN IF v4s = <<>> THEN <<>> ELSE <<v4s[Len(v4s)].octets>>

\* response.iter().filter_map(V4).next(): none (<<>>) or one address.
first_v4(ips) ==
    LET v4s == SelectSeq(ips, LAMBDA x : x.v4)
    IN IF v4s = <<>> THEN <<>> ELSE <<Head(v4s).octets>>

(***************************************************************************)
(* Cloudflare                                                              *)
(***************************************************************************)
describe(cfg) == "Cloudflare[zone=" \o cfg.zone_id \o "]"

is_success(status) == status \in 200..299

\* serde: which bodies deserialize as CloudflareResponse<T>.
ParsesAsUnit(body) == body.json /\ body.result.tag = "null"
ParsesAsList(body) == body.json /\ body.result.tag \in {"null", "list"}
ParsesAsValue(body) == body.json

create_cf_error_swallow(resp) ==
    [Report("Error from Cloudflare") EXCEPT
        !.status = resp.status,
        !.errs = IF ParsesAsUnit(resp.body) THEN resp.body.errors ELSE <<>>]

create_cf_error(resp) ==
    [Report("Error from Cloudflare") EXCEPT
        !.status = resp.status,
        !.unreadable = ~ParsesAsUnit(resp.body),
        !.errs = IF ParsesAsUnit(resp.body) THEN resp.body.errors ELSE <<>>]

\* The Debug form of a CloudflareResponse in a panic message.
DebugOf(text, cf_res) ==
    [Report(text) EXCEPT !.errs = cf_res.errors, !.list = cf_res.result.list]

list_envelope_ok_result_only(cf_res) == cf_res.result.tag # "null"

\* assert!(cf_res.success && cf_res.result.is_some(), ..)
list_envelope_ok(cf_res) == cf_res.success /\ cf_res.result.tag # "null"

put_envelope_ok_unchecked(cf_res) == TRUE

\* assert!(cf_res.success, ..)
put_envelope_ok(cf_res) == cf_res.success

single_record_first(list) == IF Len(list) >= 1 THEN <<list[1]>> ELSE <<>>

\* match list.as_slice() { [r] => r, _ => return Err(..) }
single_record(list) == IF Len(list) = 1 THEN <<list[1]>> ELSE <<>>

same_content_never(r, new_ip) == FALSE

\* record.content == new_ip.to_string()
same_content(r, new_ip) == r.content = Ipv4ToString(new_ip)

NoBody == [type |-> "", name |-> "", content |-> "", ttl |-> 0]

CloudflareUpdateDnsRecordReq_default_ttl(r, new_ip) ==
    [type |-> "A", name |-> r.name, content |-> Ipv4ToString(new_ip), ttl |-> 1]

CloudflareUpdateDnsRecordReq_old_content(r, new_ip) ==
    [type |-> "A", name |-> r.name, content |-> r.content, ttl |-> r.ttl]

CloudflareUpdateDnsRecordReq(r, new_ip) ==
    [type |-> "A", name |-> r.name, content |-> Ipv4ToString(new_ip), ttl |-> r.ttl]

resolve_call ==
    [op |-> "resolve", url |-> "208.67.222.222:53", zone |-> "",
     target |-> "myip.opendns.com.", auth |-> "", body |-> NoBody]

get_request(cfg, name) ==
    [op |-> "GET", url |-> cfg.base_url \o "/zones/" \o cfg.zone_id \o "/dns_records",
     zone |-> cfg.zone_id, target |-> name,
     auth |-> "Bearer " \o cfg.api_token, body |-> NoBody]

put_request(cfg, r, new_ip) ==
    [op |-> "PUT",
     url |-> cfg.base_url \o "/zones/" \o cfg.zone_id \o "/dns_records/" \o r.id,
     zone |-> cfg.zone_id, target |-> r.id,
     auth |-> "Bearer " \o cfg.api_token,
     body |-> CloudflareUpdateDnsRecordReq(r, new_ip)]

\* update_dns from the GET's reply up to the decision to PUT.
lookup_step(resp, new_ip) ==
    IF ~resp.sent
    THEN Err(wrap_err("Failed to send request", Report("transport")))
    ELSE IF ~is_success(resp.status)
    THEN Err(create_cf_error(resp))
    ELSE IF ~ParsesAsList(resp.body)
    THEN Err(wrap_err("Failed to read response", Report("json")))
    ELSE IF ~list_envelope_ok(resp.body)
    THEN Panic(DebugOf("Not successful or no result", resp.body))
    ELSE LET list == resp.body.result.list
             one == single_record(list)
         IN IF one = <<>>
            THEN Err([Report("Expected exactly one result") EXCEPT !.list = list])
            ELSE IF same_content(one[1], new_ip)
            THEN Ok
            ELSE Continue(one[1])

\* update_dns from the PUT's reply to its return.
put_step(resp) ==
    IF ~resp.sent
    THEN Err(wrap_err("Failed to send request", Report("transport")))
    ELSE IF ~is_success(resp.status)
    THEN Err(create_cf_error(resp))
    ELSE IF ~ParsesAsValue(resp.body)
    THEN Err(wrap_err("Failed to read response", Report("json")))
    ELSE IF ~put_envelope_ok(resp.body)
    THEN Panic(DebugOf("Not successful", resp.body))
    ELSE Ok

\* main: update_dns(..).wrap_err("Failed to update DNS entry")?; Ok(())
main_result(res) ==
    IF res.kind = "err"
    THEN [kind |-> "err", report |-> wrap_err("Failed to update DNS entry", res.report)]
    ELSE [kind |-> res.kind, report |-> res.report]

(***************************************************************************)
(* State machine                                                           *)
(***************************************************************************)
RunStart ==
    /\ pc = "load_config"
    /\ config = NoConfig
    /\ response = NoLookup
    /\ address = NoAddr
    /\ calls = <<>>
    /\ getReply = SendFailure
    /\ putReply = SendFailure
    /\ record = NoRecord
    /\ outcome = Running

Init ==
    /\ RunStart
    /\ run = 1
    /\ totalPuts = 0
    /\ updatedRun = 0
    /\ remote = NoRecord
    /\ publicIp = NoAddr

Fail(report) ==
    /\ pc' = "done"
    /\ outcome' = [kind |-> "err", report |-> report]

\* load_config(): File::open(..)? then serde_yaml::from_reader(..).wrap_err(..)
load_config(res) ==
    /\ pc = "load_config"
    /\ IF res = "ok"
       THEN /\ \E s \in Secrets : config' = s
            /\ pc' = "resolver_new"
            /\ UNCHANGED outcome
       ELSE /\ Fail(IF res = "open" THEN Report("io")
                    ELSE wrap_err("Failed to read secrets", Report("yaml")))
            /\ UNCHANGED config
    /\ UNCHANGED <<response, address, calls, getReply, putReply, record, run,
                   totalPuts, updatedRun, remote, publicIp>>

\* Resolver::new(..).wrap_err("Failed to initialize resolver")?
resolver_new(ok) ==
    /\ pc = "resolver_new"
    /\ IF ok
       THEN pc' = "lookup_ip" /\ UNCHANGED outcome
       ELSE Fail(wrap_err("Failed to initialize resolver", Report("resolver")))
    /\ UNCHANGED <<config, response, address, calls, getReply, putReply, record,
                   run, totalPuts, updatedRun, remote, publicIp>>

\* resolver.lookup_ip(..)?, then the first IPv4 address of the answer.
lookup_ip(ans) ==
    /\ pc = "lookup_ip"
    /\ calls' = Append(calls, resolve_call)
    /\ response' = ans
    /\ IF ~ans.ok
       THEN /\ Fail(wrap_err("Failed to resolve IP address", Report("resolve")))
            /\ UNCHANGED address
       ELSE IF first_v4(ans.ips) = <<>>
       THEN /\ Fail(Report("No IPv4 addresses returned"))
            /\ UNCHANGED address
       ELSE /\ address' = first_v4(ans.ips)[1]
            /\ pc' = "from_config"
            /\ UNCHANGED outcome
    /\ UNCHANGED <<config, getReply, putReply, record, run, totalPuts,
                   updatedRun, remote, publicIp>>

\* let update_dns: Box<dyn UpdateDns> = config.update_dns.into(), and the
\* log line with describe().  The resolver's answer is not read from here on.
from_config ==
    /\ pc = "from_config"
    /\ describe(config) = "Cloudflare[zone=" \o config.zone_id \o "]"
    /\ pc' = "update_dns"
    /\ response' = NoLookup
    /\ UNCHANGED <<config, address, calls, getReply, putReply, record, outcome,
                   run, totalPuts, updatedRun, remote, publicIp>>

\* update_dns, first half: the GET and what the code makes of its reply.
update_dns_get(resp) ==
    /\ pc = "update_dns"
    /\ calls' = Append(calls, get_request(config, config.dns_name))
    /\ getReply' = resp
    /\ UNCHANGED response
    /\ LET res == lookup_step(resp, address)
       IN IF res.kind = "continue"
          THEN /\ pc' = "put"
               /\ record' = res.record
               /\ UNCHANGED outcome
          ELSE /\ pc' = "done"
               /\ outcome' = main_result(res)
               /\ UNCHANGED record
    /\ UNCHANGED <<config, address, putReply, run, publicIp>>

\* update_dns, second half: the PUT and what the code makes of its reply.
update_dns_put(resp) ==
    /\ pc = "put"
    /\ calls' = Append(calls, put_request(config, record, address))
    /\ putReply' = resp
    /\ pc' = "done"
    /\ outcome' = main_result(put_step(resp))
    /\ UNCHANGED <<config, response, address, getReply, record, run, publicIp>>

\* The scheduler starts the program again: nothing of the run is kept.
NextRun ==
    /\ pc = "done"
    /\ run < MaxRuns
    /\ run' = run + 1
    /\ pc' = "load_config"
    /\ config' = NoConfig
    /\ response' = NoLookup
    /\ address' = NoAddr
    /\ calls' = <<>>
    /\ getReply' = SendFailure
    /\ putReply' = SendFailure
    /\ record' = NoRecord
    /\ outcome' = Running
    /\ UNCHANGED <<totalPuts, updatedRun, remote, publicIp>>

\* Any environment: every answer the resolver and the API can give.
LoadConfig == \E res \in {"ok", "open", "parse"} : load_config(res)
ResolverNew == \E ok \in BOOLEAN : resolver_new(ok)
LookupIp == \E ans \in LookupResults : lookup_ip(ans)
Lookup ==
    /\ \E resp \in GetResponses : update_dns_get(resp)
    /\ UNCHANGED <<remote, totalPuts, updatedRun>>
Update ==
    /\ \E resp \in PutResponses : update_dns_put(resp)
    /\ UNCHANGED <<remote, totalPuts, updatedRun>>

Next == LoadConfig \/ ResolverNew \/ LookupIp \/ from_config \/ Lookup \/ Update \/ NextRun

Spec == Init /\ [][Next]_vars

(***************************************************************************)
(* A provider that holds one A record for the name and applies every PUT   *)
(* it answers with success; requests may still fail.  The host's public    *)
(* address does not change between runs.  totalPuts counts the PUTs the    *)
(* provider was sent; updatedRun is the first run whose update_dns         *)
(* returned Ok after a PUT (0: none yet).                                  *)
(***************************************************************************)
InitRemote ==
    /\ RunStart
    /\ run = 1
    /\ totalPuts = 0
    /\ updatedRun = 0
    /\ remote \in CloudflareListDnsRecordRes
    /\ publicIp \in Ipv4Addrs

ErrorReplies ==
    {SendFailure}
        \cup {[sent |-> TRUE, status |-> 500,
               body |-> [json |-> TRUE, success |-> FALSE, result |-> NullResult,
                         errors |-> e]] : e \in SeqsUpTo(CloudflareError, MaxErrors)}

SuccessReply(result) ==
    [sent |-> TRUE, status |-> 200,
     body |-> [json |-> TRUE, success |-> TRUE, result |-> result, errors |-> <<>>]]

\* PUT /zones/{zone}/dns_records/{id} replaces name, content and ttl of {id}.
Applied(rec, req) ==
    IF req.target = rec.id
    THEN [id |-> rec.id, name |-> req.body.name, content |-> req.body.content,
          ttl |-> req.body.ttl]
    ELSE rec

LoadConfigOk == load_config("ok")
ResolverNewOk == resolver_new(TRUE)

LookupIpSame ==
    \E ans \in LookupResults :
        /\ ans.ok
        /\ first_v4(ans.ips) = <<publicIp>>
        /\ lookup_ip(ans)

LookupRemote ==
    /\ \E resp \in ErrorReplies \cup {SuccessReply(ListResult(<<remote>>))} :
            update_dns_get(resp)
    /\ UNCHANGED <<remote, totalPuts, updatedRun>>

UpdateRemote ==
    \E resp \in ErrorReplies \cup {SuccessReply(OtherResult)} :
        /\ update_dns_put(resp)
        /\ remote' = IF resp.sent /\ resp.status = 200
                     THEN Applied(remote, put_request(config, record, address))
                     ELSE remote
        /\ totalPuts' = totalPuts + 1
        /\ updatedRun' = IF put_step(resp).kind = "ok" /\ updatedRun = 0
                         THEN run ELSE updatedRun

NextRemote ==
    LoadConfigOk \/ ResolverNewOk \/ LookupIpSame \/ from_config \/ LookupRemote \/ UpdateRemote
        \/ NextRun

SpecRemote == InitRemote /\ [][NextRemote]_vars

(***************************************************************************)
(* Properties.  They read the calls made and the replies received; the     *)
(* words of the properties are spelled out here, not taken from the        *)
(* operators above.                                                        *)
(***************************************************************************)
Issued(op) == SelectSeq(calls, LAMBDA c : c.op = op)
Http2xx(resp) == resp.sent /\ resp.status >= 200 /\ resp.status <= 299
ErrorsShown(errs, report) ==
    \A i \in 1..Len(errs) : \E j \in 1..Len(report.errs) : report.errs[j] = errs[i]

\* The lookup was answered with HTTP success and a well-formed envelope
\* (success = true, a list of records as result).
LookupAnswered ==
    /\ Issued("GET") # <<>>
    /\ Http2xx(getReply)
    /\ getReply.body.json
    /\ getReply.body.success
    /\ getReply.body.result.tag = "list"
Listed == getReply.body.result.list
OneListed == LookupAnswered /\ Len(Listed) = 1
Finished(kind) == pc = "done" /\ outcome.kind = kind

\* C1: a successful lookup reply that carries exactly one record whose content
\* is the string form of the address ends update_dns with success and without
\* any PUT, in every run.
C1_NoopWhenEqual ==
    (OneListed /\ Listed[1].content = Ipv4ToString(address))
        => (Finished("ok") /\ Issued("PUT") = <<>>)

C1_Witness ==
    /\ run = 2
    /\ OneListed
    /\ Listed[1].content = Ipv4ToString(address)
    /\ Finished("ok")

\* C2: a successful lookup reply that carries exactly one record r whose
\* content differs from the string form of new_ip makes update_dns issue one
\* PUT, to r.id in the configured zone, with body {type "A", name r.name,
\* content the string form of new_ip, ttl r.ttl}; nothing else is written.
C2_SinglePutKeepsRecord ==
    (OneListed /\ Listed[1].content # Ipv4ToString(address))
        => /\ pc \in {"put", "done"}
           /\ pc = "done" => Len(Issued("PUT")) = 1
           /\ \A i \in 1..Len(Issued("PUT")) :
                LET p == Issued("PUT")[i]
                IN /\ p.target = Listed[1].id
                   /\ p.zone = config.zone_id
                   /\ p.body = [type |-> "A", name |-> Listed[1].name,
                                content |-> Ipv4ToString(address),
                                ttl |-> Listed[1].ttl]

C2_Witness ==
    /\ OneListed
    /\ Listed[1].content = "1.2.3.04"
    /\ Listed[1].ttl = 1
    /\ Len(Issued("PUT")) = 1

\* C3: a successful lookup reply whose list holds no record, or two or more,
\* ends update_dns with the cardinality error, showing the list, and without
\* any PUT, whatever the content of the listed records.
C3_CardinalityError ==
    (LookupAnswered /\ Len(Listed) # 1)
        => /\ Finished("err")
           /\ outcome.report.text = "Expected exactly one result"
           /\ outcome.report.list = Listed
           /\ Issued("PUT") = <<>>

C3_Witness ==
    /\ LookupAnswered
    /\ Len(Listed) = 2
    /\ Listed[1].content = Ipv4ToString(address)
    /\ Finished("err")

\* C4: the address selected from the resolver's answer is its first IPv4
\* address in order; an answer without IPv4 address ends the run with the
\* "No IPv4 addresses returned" error and neither GET nor PUT is issued.
C4_FirstIpv4 ==
    (Issued("resolve") # <<>> /\ response.ok)
        => IF \E i \in 1..Len(response.ips) : response.ips[i].v4
           THEN \E i \in 1..Len(response.ips) :
                    /\ response.ips[i].v4
                    /\ \A j \in 1..(i - 1) : ~response.ips[j].v4
                    /\ address = response.ips[i].octets
                    /\ pc = "from_config"
           ELSE /\ Finished("err")
                /\ outcome.report.text = "No IPv4 addresses returned"
                /\ Issued("GET") = <<>>
                /\ Issued("PUT") = <<>>

C4_Witness ==
    /\ response.ok
    /\ Len(response.ips) = 2
    /\ response.ips[1].v4
    /\ response.ips[2].v4
    /\ response.ips[1] # response.ips[2]
    /\ pc = "from_config"

\* C5: a lookup or update reply whose envelope has success = false and a
\* non-empty errors list ends update_dns with an error that shows every
\* (code, message) pair of the list, whatever the HTTP status.
C5_ErrorsReported ==
    /\ (/\ Issued("GET") # <<>>
        /\ getReply.sent /\ getReply.body.json
        /\ ~getReply.body.success /\ getReply.body.errors # <<>>)
           => (Finished("err") /\ ErrorsShown(getReply.body.errors, outcome.report))
    /\ (/\ Issued("PUT") # <<>>
        /\ putReply.sent /\ putReply.body.json
        /\ ~putReply.body.success /\ putReply.body.errors # <<>>)
           => (Finished("err") /\ ErrorsShown(putReply.body.errors, outcome.report))

\* C6: a lookup or update reply with a non-success status and a body that
\* does not parse as the error envelope ends update_dns with an error that
\* reports the parse failure and no error list; no further call is made.
C6_UnreadableErrorBody ==
    /\ (/\ Issued("GET") # <<>>
        /\ getReply.sent /\ ~Http2xx(getReply) /\ ~ParsesAsUnit(getReply.body))
           => /\ Finished("err")
              /\ outcome.report.unreadable
              /\ outcome.report.errs = <<>>
              /\ calls[Len(calls)].op = "GET"
    /\ (/\ Issued("PUT") # <<>>
        /\ putReply.sent /\ ~Http2xx(putReply) /\ ~ParsesAsUnit(putReply.body))
           => /\ Finished("err")
              /\ outcome.report.unreadable
              /\ outcome.report.errs = <<>>
              /\ calls[Len(calls)].op = "PUT"

C6_Witness ==
    /\ Issued("PUT") # <<>>
    /\ putReply.sent
    /\ ~Http2xx(putReply)
    /\ ~putReply.body.json
    /\ Finished("err")

\* C7: a lookup reply with HTTP success whose envelope breaks the contract
\* (success without result, or success = false) ends update_dns with an
\* error returned to the caller, not with a panic, and without any PUT.
C7_ContractViolationIsError ==
    (/\ Issued("GET") # <<>>
     /\ Http2xx(getReply)
     /\ ParsesAsList(getReply.body)
     /\ \/ getReply.body.success /\ getReply.body.result.tag = "null"
        \/ ~getReply.body.success)
        => (Finished("err") /\ Issued("PUT") = <<>>)

\* C8: a PUT reply with HTTP success and success = false never ends in
\* success; a run that ends in success after a PUT had a PUT reply with HTTP
\* success and success = true.
C8_NoSuccessOnFalseFlag ==
    /\ (/\ Issued("PUT") # <<>>
        /\ Http2xx(putReply) /\ putReply.body.json /\ ~putReply.body.success)
           => (pc = "done" /\ outcome.kind \in {"err", "panic"})
    /\ (Issued("PUT") # <<>> /\ outcome.kind = "ok")
           => (Http2xx(putReply) /\ putReply.body.json /\ putReply.body.success)

C8_Witness ==
    /\ Issued("PUT") # <<>>
    /\ Http2xx(putReply)
    /\ putReply.body.json
    /\ ~putReply.body.success
    /\ pc = "done"

\* C9: the calls of a run are a prefix of <<resolution, GET, PUT>>; the GET
\* follows a resolution that gave an IPv4 address, the PUT follows a GET that
\* returned HTTP success with a valid envelope holding one record whose
\* content differs from the address; a run that has failed makes no call.
CallOrder == <<"resolve", "GET", "PUT">>

C9_CallsInv ==
    /\ Len(calls) <= 3
    /\ \A i \in 1..Len(calls) : calls[i].op = CallOrder[i]
    /\ Issued("GET") # <<>> => address \in Ipv4Addrs
    /\ Issued("PUT") # <<>>
         => (OneListed /\ Listed[1].content # Ipv4ToString(address))
    /\ outcome.kind \in {"err", "panic"} => pc = "done"

C9_LinearCalls ==
    /\ []C9_CallsInv
    /\ [][(outcome.kind \in {"err", "panic"} /\ run' = run) => calls' = calls]_vars

C9_Witness ==
    /\ Len(calls) = 3
    /\ Finished("err")

\* C10 as stated: over runs that resolve the same address, against a provider
\* with one matching record that applies every successful PUT, at most one
\* PUT is issued in total; after a run's successful update the record has the
\* address as content, and every later run whose GET is answered issues no
\* PUT and returns success.
C10_AtMostOnePut ==
    /\ totalPuts <= 1
    /\ updatedRun > 0 => remote.content = Ipv4ToString(publicIp)
    /\ (updatedRun > 0 /\ run > updatedRun) => Issued("PUT") = <<>>
    /\ (updatedRun > 0 /\ run > updatedRun /\ LookupAnswered) => Finished("ok")

\* C10, amended: no PUT is issued after a run's successful update; from then
\* on the record has the address as content, its id, name and ttl never
\* change, and every later run whose GET is answered with success issues
\* no PUT and returns success.
C10_RemoteInv ==
    /\ updatedRun > 0 => remote.content = Ipv4ToString(publicIp)
    /\ (updatedRun > 0 /\ run > updatedRun) => Issued("PUT") = <<>>
    /\ (updatedRun > 0 /\ run > updatedRun /\ LookupAnswered) => Finished("ok")

C10_NoPutAfterUpdate ==
    /\ []C10_RemoteInv
    /\ [][/\ remote'.id = remote.id
          /\ remote'.name = remote.name
          /\ remote'.ttl = remote.ttl
          /\ updatedRun > 0 => totalPuts' = totalPuts]_vars

C10_Witness ==
    /\ updatedRun = 1
    /\ run = 2
    /\ LookupAnswered
    /\ Finished("ok")
    /\ totalPuts = 1

====
